---- MODULE Spec2Model ----
(***************************************************************************)
(* A model of eztk: the GitHub API wrappers (src/api/api.py), the data     *)
(* model (src/model), the Textual application EZView (src/ui/ui_new.py)    *)
(* and the older application EZTKView (src/ui/ui.py).                      *)
(*                                                                         *)
(* Python indices are kept as they are (0-based, negative indices count    *)
(* from the end); an exception that leaves a handler is recorded in `err`  *)
(* and ends the run of the application, as Textual does.                   *)
(***************************************************************************)
EXTENDS Integers, Sequences, FiniteSets, TLC

\* ------------------------------------------------------------------ bounds
\* Number of configured repositories, len(REPOS_DICT).
NbRepos == 2
\* Longest payload the remote service answers with.
MaxPayload == 2

Repos == 0 .. NbRepos - 1

\* ------------------------------------------------------- python sequences
\* seq[i] is defined iff -len <= i < len.
InRange(seq, i) == -Len(seq) <= i /\ i < Len(seq)

\* seq[i], for an index in range.
At(seq, i) == IF i >= 0 THEN seq[i + 1] ELSE seq[Len(seq) + i + 1]

\* The 1-based position python's seq[i] names.
Pos(seq, i) == IF i >= 0 THEN i + 1 ELSE Len(seq) + i + 1

\* ------------------------------------------------------------ the remote
\* What the remote service, or the transport to it, does with one request.
TransportFailures == {"refused", "dns", "connect_timeout", "read_timeout"}

\* The exception requests raises for a transport failure.
requests_raises(kind) ==
    CASE kind = "refused" -> "ConnectionError"
      [] kind = "dns" -> "ConnectionError"
      [] kind = "connect_timeout" -> "ConnectTimeout"
      [] kind = "read_timeout" -> "ReadTimeout"

\* issubclass(exc, requests.ConnectionError)
IsConnectionError(exc) == exc \in {"ConnectionError", "ConnectTimeout"}

JsonIssue(n, st) == [number |-> n, state |-> st]

PayloadsOfLen(k) ==
    { [i \in 1 .. k |-> JsonIssue(i, f[i])] : f \in [1 .. k -> {"open", "closed"}] }

Payloads == UNION { PayloadsOfLen(k) : k \in 0 .. MaxPayload }

Response(status, payload) == [fail |-> "none", status |-> status, payload |-> payload]

Failure(kind) == [fail |-> kind, status |-> 0, payload |-> << >>]

\* Answers to GET .../issues.
GetOutcomes ==
    { Response(200, p) : p \in Payloads }
        \cup { Response(404, << >>) }
        \cup { Failure(k) : k \in TransportFailures }

\* Answers to POST and PATCH.
WriteOutcomes ==
    { Response(st, << >>) : st \in {200, 201, 422} }
        \cup { Failure(k) : k \in TransportFailures }

\* ------------------------------------------------------------- the model
Issue_from_json(json_issue) ==
    [number |-> json_issue.number, state |-> json_issue.state]

\* from_json without the filter on the state.
Repo_from_json_unfiltered(json) == [i \in 1 .. Len(json) |-> Issue_from_json(json[i])]

RECURSIVE Repo_from_json(_)
Repo_from_json(json) ==
    IF json = << >> THEN << >>
    ELSE IF Head(json).state = "open"
         THEN << Issue_from_json(Head(json)) >> \o Repo_from_json(Tail(json))
         ELSE Repo_from_json(Tail(json))

\* Evaluating the attribute issue.close runs the property's getter: it sets
\* the state and yields None.
Issue_close(issue) == [issue |-> [issue EXCEPT !.state = "close"], value |-> "None"]

\* --------------------------------------------------------------- the api
\* The outcome of a call: the exception that left it (or "none"), the value
\* returned, the Repo returned (its issues), the argument issue afterwards and
\* the requests sent to the remote.
Returned(ret, issues, issue, sent) ==
    [raised |-> "none", ret |-> ret, repo |-> issues, issue |-> issue, sent |-> sent]

Raised(exc, issue, sent) ==
    [raised |-> exc, ret |-> "None", repo |-> << >>, issue |-> issue, sent |-> sent]

NoIssue == [number |-> 0, state |-> "open"]

PyBool(b) == IF b THEN "True" ELSE "False"

catch_connection_errors(res) ==
    IF IsConnectionError(res.raised)
    THEN Returned("None", << >>, res.issue, res.sent)
    ELSE res

\* requests.get / post / patch: the exception raised, or the response.
Request(method, issue, remote) == [method |-> method, state |-> issue.state]

fetch_repo_inner(remote) ==
    LET sent == << Request("GET", NoIssue, remote) >>
    IN IF remote.fail # "none" THEN Raised(requests_raises(remote.fail), NoIssue, sent)
       ELSE IF remote.status = 200
            THEN Returned("Repo", Repo_from_json(remote.payload), NoIssue, sent)
            ELSE Raised("ApiError", NoIssue, sent)

fetch_repo(remote) == catch_connection_errors(fetch_repo_inner(remote))

push_new_issue_inner(issue, remote) ==
    LET sent == << Request("POST", issue, remote) >>
    IN IF remote.fail # "none" THEN Raised(requests_raises(remote.fail), issue, sent)
       ELSE Returned(PyBool(remote.status = 201), << >>, issue, sent)

push_new_issue(issue, remote) ==
    catch_connection_errors(push_new_issue_inner(issue, remote))

update_issue_inner(issue, remote) ==
    LET sent == << Request("PATCH", issue, remote) >>
    IN IF remote.fail # "none" THEN Raised(requests_raises(remote.fail), issue, sent)
       ELSE Returned(PyBool(remote.status = 200), << >>, issue, sent)

update_issue(issue, remote) ==
    catch_connection_errors(update_issue_inner(issue, remote))

\* issue.close() evaluates the attribute and then calls its value.
close_issue_inner(issue, remote) ==
    LET got == Issue_close(issue)
    IN IF got.value = "None"
       THEN Raised("TypeError", got.issue, << >>)
       ELSE update_issue(got.issue, remote)

close_issue(issue, remote) ==
    catch_connection_errors(close_issue_inner(issue, remote))

\* The answers a refresh cycle draws from: one remote behaviour for each
\* outcome of fetch_repo a caller can tell apart.
FetchOutcomes == { fetch_repo(remote) : remote \in GetOutcomes }

UiGetOutcomes ==
    { CHOOSE remote \in GetOutcomes : fetch_repo(remote) = res : res \in FetchOutcomes }

\* ------------------------------------------------------------------ state
VARIABLES
    running,               \* which application runs: "EZView", "EZTKView", "api"
    lastAct,               \* the handler that ran last
    err,                   \* the exception that left a handler, "none" if none did
    repo,                  \* EZView: RepoView.repo, per repository
    views,                 \* EZView: the IssueViews mounted in each RepoView, in order
    repo_selected_index,   \* EZView: RepoView.selected_index
    selected_repo,         \* EZView: whether the RepoView has the css class selected_repo
    app_selected_index,    \* EZView: EZView.selected_index
    fetched,               \* EZView: what fetch_repo gave each repository in the last cycle
    selected_first,        \* EZView: whether select_first ran in the last cycle
    ext,                   \* the external command the last handler spawned
    call,                  \* the last call of a write operation of the api, and its outcome
    eztk                   \* EZTKView (ui.py): the application and its RepoViews

ezvars ==
    << repo, views, repo_selected_index, selected_repo, app_selected_index,
       fetched, selected_first, ext >>

\* ------------------------------------------------- ui_new.py: the widgets
NoneRepo == [none |-> TRUE, issues |-> << >>]

SomeRepo(issues) == [none |-> FALSE, issues |-> issues]

Repo_empty == SomeRepo(<< >>)

\* IssueView(index) with its issue set; the index is its position.
IssueView(issue) == [issue |-> issue, selected_issue |-> FALSE, is_text_open |-> FALSE]

IssueView_select(v) == [v EXCEPT !.selected_issue = TRUE]

IssueView_unselect(v) == [v EXCEPT !.selected_issue = FALSE]

IssueView_toggle_text_display(v) == [v EXCEPT !.is_text_open = ~v.is_text_open]

NoExt == [cmd |-> "none", repo |-> -1, number |-> 0]

NotFetched == [ret |-> "not_fetched", exc |-> "none", issues |-> << >>]

\* The state of EZView as one value; a handler is a composition of steps on
\* it, and a step does nothing once an exception has been raised.
EZ ==
    [repo |-> repo, views |-> views, rsel |-> repo_selected_index,
     cls |-> selected_repo, asel |-> app_selected_index, err |-> err,
     fetched |-> fetched, selected_first |-> selected_first, ext |-> ext]

Ok(s) == s.err = "none"

Raise(s, exc) == IF Ok(s) THEN [s EXCEPT !.err = exc] ELSE s

\* self.query(RepoView)[i]
RepoInRange(i) == -NbRepos <= i /\ i < NbRepos

RepoPos(i) == IF i >= 0 THEN i ELSE NbRepos + i

\* r.query(IssueView)[i].select()
SelectAt(s, r, i) ==
    IF ~Ok(s) THEN s
    ELSE IF ~InRange(s.views[r], i) THEN Raise(s, "IndexError")
    ELSE [s EXCEPT !.views[r][Pos(s.views[r], i)] = IssueView_select(@)]

\* r.query(IssueView)[i].unselect()
UnselectAt(s, r, i) ==
    IF ~Ok(s) THEN s
    ELSE IF ~InRange(s.views[r], i) THEN Raise(s, "IndexError")
    ELSE [s EXCEPT !.views[r][Pos(s.views[r], i)] = IssueView_unselect(@)]

SetIndex(s, r, i) == IF Ok(s) THEN [s EXCEPT !.rsel[r] = i] ELSE s

\* update_issues that mounts the new issues after the old ones.
RepoView_mount_issues_only(s, r, issues) ==
    [s EXCEPT !.views[r] = @ \o [i \in 1 .. Len(issues) |-> IssueView(issues[i])]]

\* update_issues that keeps the view of an issue that is still at its
\* position, instead of mounting a new one.
RepoView_update_issues_by_number(s, r, issues) ==
    [s EXCEPT !.views[r] =
        [i \in 1 .. Len(issues) |->
            IF i <= Len(s.views[r]) /\ s.views[r][i].issue.number = issues[i].number
            THEN [s.views[r][i] EXCEPT !.issue = issues[i]]
            ELSE IssueView(issues[i])]]

RepoView_update_issues(s, r, issues) ==
    [s EXCEPT !.views[r] = [i \in 1 .. Len(issues) |-> IssueView(issues[i])]]

RepoView_refresh_content(s, r, remote) ==
    LET res == fetch_repo(remote)
    IN IF ~Ok(s) THEN s
       ELSE IF res.raised # "none"
       THEN Raise([s EXCEPT !.fetched[r] =
                       [ret |-> "raised", exc |-> res.raised, issues |-> << >>]],
                  res.raised)
       ELSE IF res.ret = "None"
       THEN [s EXCEPT !.repo[r] = NoneRepo,
                      !.fetched[r] = [ret |-> "None", exc |-> "none", issues |-> << >>]]
       ELSE RepoView_update_issues(
                [s EXCEPT !.repo[r] = SomeRepo(res.repo),
                          !.fetched[r] = [ret |-> "Repo", exc |-> "none", issues |-> res.repo]],
                r, res.repo)

\* The next index without the wrap to the first issue.
NextIssueIndex_no_wrap(s, r) == s.rsel[r] + 1

NextIssueIndex(s, r) ==
    IF s.repo[r].none \/ s.rsel[r] + 1 >= Len(s.repo[r].issues) THEN 0 ELSE s.rsel[r] + 1

RepoView_select_next_issue(s, r) ==
    LET has == s.views[r] # << >>
        s1 == IF has THEN UnselectAt(s, r, s.rsel[r]) ELSE s
        s2 == SetIndex(s1, r, NextIssueIndex(s, r))
    IN IF has THEN SelectAt(s2, r, s2.rsel[r]) ELSE s2

PrevIssueIndex(s, r) ==
    IF s.repo[r].none THEN 0
    ELSE IF s.rsel[r] - 1 < 0 THEN Len(s.repo[r].issues) - 1
    ELSE s.rsel[r] - 1

RepoView_select_prev_issue(s, r) ==
    LET has == s.views[r] # << >>
        s1 == IF has THEN UnselectAt(s, r, s.rsel[r]) ELSE s
        s2 == SetIndex(s1, r, PrevIssueIndex(s, r))
    IN IF has THEN SelectAt(s2, r, s2.rsel[r]) ELSE s2

\* select() that marks the repository and leaves its issues alone.
RepoView_select_repo_only(s, r) ==
    IF Ok(s) THEN [s EXCEPT !.cls[r] = TRUE, !.rsel[r] = 0] ELSE s

RepoView_select(s, r) ==
    LET s1 == IF Ok(s) THEN [s EXCEPT !.cls[r] = TRUE, !.rsel[r] = 0] ELSE s
    IN IF s1.views[r] # << >> THEN SelectAt(s1, r, 0) ELSE s1

\* unselect that keeps the issue index of the repository.
RepoView_unselect_keep_index(s, r) ==
    IF ~Ok(s) THEN s
    ELSE [s EXCEPT !.views[r] = [i \in 1 .. Len(s.views[r]) |-> IssueView_unselect(s.views[r][i])],
                   !.cls[r] = FALSE]

RepoView_unselect(s, r) ==
    IF ~Ok(s) THEN s
    ELSE [s EXCEPT !.views[r] = [i \in 1 .. Len(s.views[r]) |-> IssueView_unselect(s.views[r][i])],
                   !.rsel[r] = 0,
                   !.cls[r] = FALSE]

\* ----------------------------------------------------- ui_new.py: EZView
\* A handler starts with no external command spawned.
Begin(s) == [s EXCEPT !.ext = NoExt]

\* A refresh cycle starts with nothing fetched.
BeginCycle(s) ==
    [s EXCEPT !.ext = NoExt, !.fetched = [r \in Repos |-> NotFetched],
              !.selected_first = FALSE]

RECURSIVE reload_from(_, _, _)
reload_from(s, r, remotes) ==
    IF r >= NbRepos THEN s
    ELSE reload_from(RepoView_refresh_content(s, r, remotes[r]), r + 1, remotes)

EZView_reload_repos(s, remotes) == reload_from(s, 0, remotes)

\* select_first that also moves the application's index to the first
\* repository.
EZView_select_first_and_index(s) ==
    IF ~Ok(s) THEN s
    ELSE LET s1 == RepoView_select([s EXCEPT !.selected_first = TRUE, !.asel = 0], 0)
         IN IF s1.views[0] # << >> THEN SelectAt(s1, 0, 0) ELSE s1

EZView_select_first(s) ==
    IF ~Ok(s) THEN s
    ELSE LET s1 == RepoView_select([s EXCEPT !.selected_first = TRUE], 0)
         IN IF s1.views[0] # << >> THEN SelectAt(s1, 0, 0) ELSE s1

EZView_refresh_content(s, remotes) ==
    EZView_select_first(EZView_reload_repos(s, remotes))

\* The IssueView selected_issue_view() returns: "None", or the view at
\* position pos of repository r.
EZView_selected_issue_view(s) ==
    IF ~RepoInRange(s.asel)
    THEN [err |-> "IndexError", view |-> "None", r |-> 0, pos |-> 0]
    ELSE LET r == RepoPos(s.asel)
         IN IF s.views[r] = << >>
            THEN [err |-> "none", view |-> "None", r |-> r, pos |-> 0]
            ELSE IF InRange(s.views[r], s.rsel[r])
            THEN [err |-> "none", view |-> "IssueView", r |-> r,
                  pos |-> Pos(s.views[r], s.rsel[r])]
            ELSE [err |-> "IndexError", view |-> "None", r |-> r, pos |-> 0]

RECURSIVE unselect_from(_, _)
unselect_from(s, r) ==
    IF r >= NbRepos THEN s ELSE unselect_from(RepoView_unselect(s, r), r + 1)

EZView_unselect_every_issue_and_repo(s) ==
    LET s1 == unselect_from(s, 0)
    IN [s1 EXCEPT !.views =
           [r \in Repos |->
               [i \in 1 .. Len(s1.views[r]) |-> IssueView_unselect(s1.views[r][i])]]]

\* self.selected_repo_view().select()
SelectSelectedRepo(s) ==
    IF ~Ok(s) THEN s
    ELSE IF ~RepoInRange(s.asel) THEN Raise(s, "IndexError")
    ELSE RepoView_select(s, RepoPos(s.asel))

EZView_select_issue_by_index(s, repo_index, issue_index) ==
    LET s1 == [EZView_unselect_every_issue_and_repo(s) EXCEPT !.asel = repo_index]
    IN IF ~RepoInRange(repo_index) THEN Raise(s1, "IndexError")
       ELSE LET r == RepoPos(repo_index)
                s2 == SetIndex(RepoView_select(s1, r), r, issue_index)
            IN IF issue_index < Len(s2.views[r])
               THEN SelectAt(UnselectAt(s2, r, 0), r, issue_index)
               ELSE s2

\* next-repo wrapping one repository too late.
NextRepoIndex_late_wrap(i) == IF i + 1 > NbRepos THEN 0 ELSE i + 1

NextRepoIndex(i) == IF i + 1 >= NbRepos THEN 0 ELSE i + 1

PrevRepoIndex(i) == IF i - 1 < 0 THEN NbRepos - 1 ELSE i - 1

EZView_action_next_repo(s) ==
    SelectSelectedRepo(
        [EZView_unselect_every_issue_and_repo(s) EXCEPT !.asel = NextRepoIndex(s.asel)])

EZView_action_prev_repo(s) ==
    SelectSelectedRepo(
        [EZView_unselect_every_issue_and_repo(s) EXCEPT !.asel = PrevRepoIndex(s.asel)])

EZView_action_next_issue(s) ==
    IF ~RepoInRange(s.asel) THEN Raise(s, "IndexError")
    ELSE RepoView_select_next_issue(s, RepoPos(s.asel))

EZView_action_prev_issue(s) ==
    IF ~RepoInRange(s.asel) THEN Raise(s, "IndexError")
    ELSE RepoView_select_prev_issue(s, RepoPos(s.asel))

\* toggle_issue that toggles the first issue of the selected repository.
EZView_action_toggle_first_issue(s) ==
    LET v == EZView_selected_issue_view(s)
    IN IF v.err # "none" THEN Raise(s, v.err)
       ELSE IF v.view = "None" THEN s
       ELSE [s EXCEPT !.views[v.r][1] = IssueView_toggle_text_display(@)]

EZView_action_toggle_issue(s) ==
    LET v == EZView_selected_issue_view(s)
    IN IF v.err # "none" THEN Raise(s, v.err)
       ELSE IF v.view = "None" THEN s
       ELSE [s EXCEPT !.views[v.r][v.pos] = IssueView_toggle_text_display(@)]

EZView_action_github_issue(s) ==
    LET v == EZView_selected_issue_view(s)
    IN IF v.err # "none" THEN Raise(s, v.err)
       ELSE IF v.view = "None" THEN s
       ELSE [s EXCEPT !.ext = [cmd |-> "open_in_browser", repo |-> v.r,
                               number |-> s.views[v.r][v.pos].issue.number]]

EZView_action_github_repo(s) ==
    IF ~RepoInRange(s.asel) THEN Raise(s, "IndexError")
    ELSE IF s.repo[RepoPos(s.asel)].none THEN s
    ELSE [s EXCEPT !.ext = [cmd |-> "open_in_browser", repo |-> RepoPos(s.asel), number |-> 0]]

EZView_action_ranger(s) ==
    IF ~RepoInRange(s.asel) THEN Raise(s, "IndexError")
    ELSE [s EXCEPT !.ext = [cmd |-> "open_in_ranger", repo |-> RepoPos(s.asel), number |-> 0]]

EZView_action_octo(s) ==
    LET v == EZView_selected_issue_view(s)
    IN IF v.err # "none" THEN Raise(s, v.err)
       ELSE IF v.view = "None" THEN s
       ELSE [s EXCEPT !.ext = [cmd |-> "open_in_lvim_octo", repo |-> v.r,
                               number |-> s.views[v.r][v.pos].issue.number]]

\* The Issue of the IssueView is the object the Repo holds: closing it shows
\* in both.
SetIssue(s, r, pos, issue) ==
    [s EXCEPT !.views[r][pos].issue = issue,
              !.repo[r].issues =
                  [i \in 1 .. Len(@) |-> IF i = pos THEN issue ELSE @[i]]]

EZView_action_close(s, remote) ==
    LET v == EZView_selected_issue_view(s)
    IN IF v.err # "none" THEN Raise(s, v.err)
       ELSE IF v.view = "None" \/ s.repo[v.r].none THEN s
       ELSE LET res == close_issue(s.views[v.r][v.pos].issue, remote)
            IN Raise(SetIssue(s, v.r, v.pos, res.issue), res.raised)

\* IssueView.on_click
IssueView_on_click(s, r, index) ==
    LET s1 == EZView_select_issue_by_index(s, r, index)
    IN IF ~Ok(s1) THEN s1
       ELSE [s1 EXCEPT !.views[r][index + 1] = IssueView_toggle_text_display(@)]

\* ------------------------------------------------------ ui.py: EZTKView
\* RepoView.repo: unset before on_mount, then a Repo or the list [].
OldRepo(kind, issues) == [kind |-> kind, issues |-> issues]

\* The state of EZTKView and of its RepoViews, with the handler's outcome.
TK ==
    [repo |-> eztk.repo, nb_issues |-> eztk.nb_issues, has_issues |-> eztk.has_issues,
     selected_index |-> eztk.selected_index,
     selected_repo |-> eztk.selected_repo, selected_view |-> eztk.selected_view,
     reloaded |-> eztk.reloaded,
     err |-> err, ext |-> NoExt]

Old_RepoView_reload_repo(e, r, remote) ==
    LET response == fetch_repo(remote)
    IN IF response.raised # "none" THEN Raise(e, response.raised)
       ELSE IF response.ret # "None"
       THEN [e EXCEPT !.repo[r] = OldRepo("Repo", response.repo)]
       ELSE [e EXCEPT !.repo[r] = OldRepo("list", << >>)]

Old_RepoView_count_issues(e, r) ==
    [e EXCEPT !.nb_issues[r] = Len(e.repo[r].issues),
              !.has_issues[r] = Len(e.repo[r].issues) # 0]

\* content[self.selected_index] and self.repo[self.selected_index]
Old_RepoView_generate_content(e, r) ==
    LET e1 == Old_RepoView_count_issues(e, r)
    IN IF ~e1.has_issues[r] THEN e1
       ELSE IF ~InRange(e1.repo[r].issues, e1.selected_index[r])
       THEN Raise(e1, "IndexError")
       ELSE e1

Old_RepoView_is_in_issues_list(e, r, y) ==
    e.has_issues[r] /\ y <= Len(e.repo[r].issues)

Old_RepoView_set_selected_issue_index(e, r, y) ==
    IF Ok(e) THEN [e EXCEPT !.selected_index[r] = y - 1] ELSE e

Old_RepoView_open_repo_in_browser(e, r) ==
    IF ~Ok(e) THEN e
    ELSE IF e.repo[r].kind # "Repo" THEN Raise(e, "AttributeError")
    ELSE [e EXCEPT !.ext = [cmd |-> "open_in_browser", repo |-> r, number |-> 0]]

Old_RepoView_open_selected_issue_in_browser(e, r) ==
    IF ~Ok(e) \/ ~e.has_issues[r] THEN e
    ELSE IF ~InRange(e.repo[r].issues, e.selected_index[r]) THEN Raise(e, "IndexError")
    ELSE [e EXCEPT !.ext = [cmd |-> "open_in_browser", repo |-> r,
                            number |-> At(e.repo[r].issues, e.selected_index[r]).number]]

Old_RepoView_open_repo_in_ranger(e, r) ==
    IF ~Ok(e) THEN e
    ELSE [e EXCEPT !.ext = [cmd |-> "open_in_ranger", repo |-> r, number |-> 0]]

Old_RepoView_open_selected_issue_in_lvim_octo(e, r) ==
    IF ~Ok(e) \/ ~e.has_issues[r] THEN e
    ELSE IF ~InRange(e.repo[r].issues, e.selected_index[r]) THEN Raise(e, "IndexError")
    ELSE [e EXCEPT !.ext = [cmd |-> "open_in_lvim_octo", repo |-> r,
                            number |-> At(e.repo[r].issues, e.selected_index[r]).number]]

\* RepoView.is_selected only chooses the border and the colours: it is left
\* out, and with it unselect_view and on_leave, which set nothing else.
EZTKView_set_selected_widget(e, index) ==
    [e EXCEPT !.selected_repo = index, !.selected_view = index]

LEFT_BUTTON == 1

RIGHT_BUTTON == 3

Old_RepoView_on_click(e, r, y, button) ==
    LET e1 == EZTKView_set_selected_widget(e, r)
        e2 == IF button # LEFT_BUTTON THEN e1
              ELSE IF y = 0 THEN Old_RepoView_open_repo_in_browser(e1, r)
              ELSE IF Old_RepoView_is_in_issues_list(e1, r, y)
              THEN Old_RepoView_set_selected_issue_index(e1, r, y)
              ELSE Old_RepoView_open_selected_issue_in_browser(e1, r)
    IN IF button # RIGHT_BUTTON THEN e2
       ELSE IF y = 0 THEN Old_RepoView_open_repo_in_ranger(e2, r)
       ELSE IF Old_RepoView_is_in_issues_list(e2, r, y)
       THEN Old_RepoView_open_selected_issue_in_lvim_octo(
                Old_RepoView_set_selected_issue_index(e2, r, y), r)
       ELSE Old_RepoView_open_selected_issue_in_lvim_octo(e2, r)

EZTKView_decr_selected_repo(e) ==
    [e EXCEPT !.selected_repo = (e.selected_repo - 1) % NbRepos]

EZTKView_incr_selected_repo(e) ==
    [e EXCEPT !.selected_repo = (e.selected_repo + 1) % NbRepos]

\* select_view(self.selected_repo)
EZTKView_select_view(e) == [e EXCEPT !.selected_view = e.selected_repo]

EZTKView_action_left(e) ==
    EZTKView_select_view(EZTKView_decr_selected_repo(e))

EZTKView_action_right(e) ==
    EZTKView_select_view(EZTKView_incr_selected_repo(e))

EZTKView_action_up(e) ==
    LET view == e.selected_view
    IN IF e.has_issues[view]
       THEN [e EXCEPT !.selected_index[view] =
                (e.selected_index[view] - 1) % e.nb_issues[view]]
       ELSE e

EZTKView_action_down(e) ==
    LET view == e.selected_view
    IN IF e.has_issues[view]
       THEN [e EXCEPT !.selected_index[view] =
                (e.selected_index[view] + 1) % e.nb_issues[view]]
       ELSE e

\* ---------------------------------------------------------------- actions
NoCall == [fn |-> "none", issue |-> NoIssue, remote |-> Response(0, << >>),
           res |-> Returned("None", << >>, NoIssue, << >>)]

vars ==
    << running, lastAct, err, repo, views, repo_selected_index, selected_repo,
       app_selected_index, fetched, selected_first, ext, call, eztk >>

\* The handler `act` has run and left EZView in s.
Commit(s, act) ==
    /\ lastAct' = act
    /\ err' = s.err
    /\ repo' = s.repo
    /\ views' = s.views
    /\ repo_selected_index' = s.rsel
    /\ selected_repo' = s.cls
    /\ app_selected_index' = s.asel
    /\ fetched' = s.fetched
    /\ selected_first' = s.selected_first
    /\ ext' = s.ext
    /\ UNCHANGED << running, eztk >>

\* EZView handles events once mounted, and none after an exception.
Live == running = "EZView" /\ err = "none" /\ lastAct # "compose"

EZView_on_mount ==
    /\ running = "EZView" /\ err = "none" /\ lastAct = "compose"
    /\ \E remotes \in [Repos -> UiGetOutcomes] :
           Commit(EZView_refresh_content(BeginCycle(EZ), remotes), "on_mount")
    /\ UNCHANGED call

\* The interval timer set by on_mount, or action_refresh.
EZView_refresh ==
    /\ Live
    /\ \E remotes \in [Repos -> UiGetOutcomes] :
           Commit(EZView_refresh_content(BeginCycle(EZ), remotes), "refresh_content")
    /\ UNCHANGED call

action_next_repo ==
    Live /\ Commit(EZView_action_next_repo(Begin(EZ)), "action_next_repo") /\ UNCHANGED call

action_prev_repo ==
    Live /\ Commit(EZView_action_prev_repo(Begin(EZ)), "action_prev_repo") /\ UNCHANGED call

action_next_issue ==
    Live /\ Commit(EZView_action_next_issue(Begin(EZ)), "action_next_issue") /\ UNCHANGED call

action_prev_issue ==
    Live /\ Commit(EZView_action_prev_issue(Begin(EZ)), "action_prev_issue") /\ UNCHANGED call

action_toggle_issue ==
    Live /\ Commit(EZView_action_toggle_issue(Begin(EZ)), "action_toggle_issue")
         /\ UNCHANGED call

action_github_issue ==
    Live /\ Commit(EZView_action_github_issue(Begin(EZ)), "action_github_issue")
         /\ UNCHANGED call

action_github_repo ==
    Live /\ Commit(EZView_action_github_repo(Begin(EZ)), "action_github_repo")
         /\ UNCHANGED call

action_ranger ==
    Live /\ Commit(EZView_action_ranger(Begin(EZ)), "action_ranger") /\ UNCHANGED call

action_octo ==
    Live /\ Commit(EZView_action_octo(Begin(EZ)), "action_octo") /\ UNCHANGED call

action_close ==
    /\ Live
    /\ \E remote \in WriteOutcomes :
           LET v == EZView_selected_issue_view(EZ)
               closes == v.err = "none" /\ v.view = "IssueView" /\ ~repo[v.r].none
           IN /\ Commit(EZView_action_close(Begin(EZ), remote), "action_close")
              /\ call' = IF closes
                         THEN [fn |-> "close_issue", issue |-> views[v.r][v.pos].issue,
                               remote |-> remote,
                               res |-> close_issue(views[v.r][v.pos].issue, remote)]
                         ELSE NoCall

\* A click on a mounted IssueView.
on_click ==
    /\ Live
    /\ \E r \in Repos : \E index \in 0 .. Len(views[r]) - 1 :
           Commit(IssueView_on_click(Begin(EZ), r, index), "on_click")
    /\ UNCHANGED call

\* ------------------------------------------------------ EZTKView handlers
CommitTK(e, act) ==
    /\ lastAct' = act
    /\ err' = e.err
    /\ ext' = e.ext
    /\ eztk' = [repo |-> e.repo, nb_issues |-> e.nb_issues, has_issues |-> e.has_issues,
                selected_index |-> e.selected_index,
                selected_repo |-> e.selected_repo, selected_view |-> e.selected_view,
                reloaded |-> e.reloaded]
    /\ UNCHANGED << running, repo, views, repo_selected_index, selected_repo,
                    app_selected_index, fetched, selected_first, call >>

Mounted(r) == eztk.repo[r].kind # "unset"

\* EZTKView handles events once its RepoViews are mounted, and none after an
\* exception.
LiveTK == running = "EZTKView" /\ err = "none" /\ \A r \in Repos : Mounted(r)

\* The RepoViews are mounted in the order of the grid.
tk_RepoView_on_mount ==
    /\ running = "EZTKView" /\ err = "none"
    /\ \E r \in Repos :
           /\ ~Mounted(r)
           /\ \A q \in Repos : q < r => Mounted(q)
           /\ \E remote \in UiGetOutcomes :
                  CommitTK(Old_RepoView_reload_repo(TK, r, remote), "RepoView.on_mount")

\* The timer of RepoView r has fired in the current period of 30 s.
TimerFired(e, r) ==
    [e EXCEPT !.reloaded = IF @ \cup {r} = Repos THEN {} ELSE @ \cup {r}]

\* The 30 s timer of one RepoView: each RepoView sets its own in on_mount, so
\* each fires once in every period.
tk_reload_repo ==
    /\ LiveTK
    /\ \E r \in Repos, remote \in UiGetOutcomes :
           /\ r \notin eztk.reloaded
           /\ CommitTK(Old_RepoView_reload_repo(TimerFired(TK, r), r, remote), "reload_repo")

\* The 1 s timer of one RepoView, or a refresh asked by a handler.
tk_render ==
    /\ LiveTK
    /\ \E r \in Repos : CommitTK(Old_RepoView_generate_content(TK, r), "render")

tk_on_click ==
    /\ LiveTK
    /\ \E r \in Repos, y \in 0 .. MaxPayload + 1, button \in {LEFT_BUTTON, RIGHT_BUTTON} :
           CommitTK(Old_RepoView_on_click(TK, r, y, button), "RepoView.on_click")

tk_on_enter ==
    /\ LiveTK
    /\ \E r \in Repos :
           CommitTK(EZTKView_set_selected_widget(TK, r), "RepoView.on_enter")

tk_action_up == LiveTK /\ CommitTK(EZTKView_action_up(TK), "action_up")

tk_action_down == LiveTK /\ CommitTK(EZTKView_action_down(TK), "action_down")

tk_action_left == LiveTK /\ CommitTK(EZTKView_action_left(TK), "action_left")

tk_action_right == LiveTK /\ CommitTK(EZTKView_action_right(TK), "action_right")

tk_action_f1 ==
    LiveTK /\ CommitTK(Old_RepoView_open_repo_in_browser(TK, eztk.selected_view), "action_f1")

tk_action_f2 ==
    LiveTK /\ CommitTK(Old_RepoView_open_selected_issue_in_browser(TK, eztk.selected_view),
                       "action_f2")

tk_action_f3 ==
    LiveTK /\ CommitTK(Old_RepoView_open_repo_in_ranger(TK, eztk.selected_view), "action_f3")

tk_action_f4 ==
    LiveTK /\ CommitTK(Old_RepoView_open_selected_issue_in_lvim_octo(TK, eztk.selected_view),
                       "action_f4")

\* ------------------------------------------------- the api, called directly
Issues == { [number |-> n, state |-> st] : n \in 1 .. MaxPayload, st \in {"open", "close"} }

ApiCall(fn, issue, remote, res) ==
    /\ running = "api"
    /\ call' = [fn |-> fn, issue |-> issue, remote |-> remote, res |-> res]
    /\ lastAct' = fn
    /\ err' = res.raised
    /\ UNCHANGED << running, ezvars, eztk >>

call_fetch_repo ==
    \E remote \in GetOutcomes : ApiCall("fetch_repo", NoIssue, remote, fetch_repo(remote))

call_push_new_issue ==
    \E issue \in Issues, remote \in WriteOutcomes :
        ApiCall("push_new_issue", issue, remote, push_new_issue(issue, remote))

call_update_issue ==
    \E issue \in Issues, remote \in WriteOutcomes :
        ApiCall("update_issue", issue, remote, update_issue(issue, remote))

call_close_issue ==
    \E issue \in Issues, remote \in WriteOutcomes :
        ApiCall("close_issue", issue, remote, close_issue(issue, remote))

\* ----------------------------------------------- the codec of model/issue.py
\* A JSON string and a JSON list of strings.
JsonString(str) == [type |-> "string", value |-> str]

JsonStrings(strs) == [i \in 1 .. Len(strs) |-> JsonString(strs[i])]

\* An Issue with the fields to_json writes.
FullIssue(title, body, labels, number, state) ==
    [title |-> title, body |-> body, labels |-> labels, number |-> number, state |-> state]

\* Issue.to_json: the JSON object json.dumps writes, by key.
Issue_to_json(issue) ==
    [title |-> JsonString(issue.title),
     body |-> JsonString(issue.body),
     labels |-> JsonStrings(issue.labels),
     state |-> JsonString(issue.state)]

\* json_label["name"] for each label: a str cannot be indexed by "name".
Issue_parse_labels(json_labels) ==
    IF \E i \in 1 .. Len(json_labels) : json_labels[i].type = "string"
    THEN [raised |-> "TypeError", labels |-> << >>]
    ELSE [raised |-> "none",
          labels |-> [i \in 1 .. Len(json_labels) |-> json_labels[i].name.value]]

\* Issue.from_json on a JSON object: the arguments of cls(...) are evaluated
\* in order, and the first that fails raises.
Issue_from_json_object(json_issue) ==
    LET keys == DOMAIN json_issue
        failed(exc) == [raised |-> exc, issue |-> FullIssue("", "", << >>, 0, "")]
    IN IF "title" \notin keys \/ "body" \notin keys \/ "labels" \notin keys
       THEN failed("KeyError")
       ELSE LET parsed == Issue_parse_labels(json_issue.labels)
            IN IF parsed.raised # "none" THEN failed(parsed.raised)
               ELSE IF "number" \notin keys \/ "state" \notin keys THEN failed("KeyError")
               ELSE [raised |-> "none",
                     issue |-> FullIssue(json_issue.title.value, json_issue.body.value,
                                         parsed.labels, json_issue.number.value,
                                         json_issue.state.value)]

\* The issues encoded and decoded: empty and non-empty body, no label, one
\* label, two labels in both orders.
FullIssues ==
    { FullIssue("titre", body, labels, 1, state) :
          body \in {"", "corps"},
          labels \in {<< >>, << "a" >>, << "a", "b" >>, << "b", "a" >>},
          state \in {"open", "close"} }

\* Issue.from_json(repo, json.loads(issue.to_json()))
call_round_trip ==
    /\ running = "api"
    /\ \E issue \in FullIssues :
           LET decoded == Issue_from_json_object(Issue_to_json(issue))
           IN /\ call' = [fn |-> "round_trip", issue |-> issue,
                          remote |-> NoCall.remote,
                          res |-> [raised |-> decoded.raised, ret |-> "Issue",
                                   repo |-> << >>, issue |-> decoded.issue, sent |-> << >>]]
              /\ err' = decoded.raised
    /\ lastAct' = "round_trip"
    /\ UNCHANGED << running, ezvars, eztk >>

\* ------------------------------------------------------------------- spec
Init ==
    /\ running \in {"EZView", "EZTKView", "api"}
    /\ lastAct = "compose"
    /\ err = "none"
    /\ repo = [r \in Repos |-> Repo_empty]
    /\ views = [r \in Repos |-> << >>]
    /\ repo_selected_index = [r \in Repos |-> 0]
    /\ selected_repo = [r \in Repos |-> FALSE]
    /\ app_selected_index = 0
    /\ fetched = [r \in Repos |-> NotFetched]
    /\ selected_first = FALSE
    /\ ext = NoExt
    /\ call = NoCall
    /\ eztk = [repo |-> [r \in Repos |-> OldRepo("unset", << >>)],
               nb_issues |-> [r \in Repos |-> 0],
               has_issues |-> [r \in Repos |-> FALSE],
               selected_index |-> [r \in Repos |-> 0],
               selected_repo |-> 0,
               selected_view |-> 0,
               reloaded |-> {}]

Next ==
    \/ EZView_on_mount
    \/ EZView_refresh
    \/ action_next_repo
    \/ action_prev_repo
    \/ action_next_issue
    \/ action_prev_issue
    \/ action_toggle_issue
    \/ action_github_issue
    \/ action_github_repo
    \/ action_ranger
    \/ action_octo
    \/ action_close
    \/ on_click
    \/ tk_RepoView_on_mount
    \/ tk_reload_repo
    \/ tk_render
    \/ tk_on_click
    \/ tk_on_enter
    \/ tk_action_up
    \/ tk_action_down
    \/ tk_action_left
    \/ tk_action_right
    \/ tk_action_f1
    \/ tk_action_f2
    \/ tk_action_f3
    \/ tk_action_f4
    \/ call_fetch_repo
    \/ call_push_new_issue
    \/ call_update_issue
    \/ call_close_issue
    \/ call_round_trip

Spec == Init /\ [][Next]_vars

\* ----------------------------------------------------------------- claims
Refreshed == lastAct \in {"on_mount", "refresh_content"}

\* The cursor of EZView is in range: the application's index names a
\* repository, and the selected RepoView's index names one of its mounted
\* issues, or is 0 when it has none.
CursorInRange ==
    /\ app_selected_index \in Repos
    /\ IF views[app_selected_index] # << >>
       THEN /\ 0 <= repo_selected_index[app_selected_index]
            /\ repo_selected_index[app_selected_index] < Len(views[app_selected_index])
       ELSE repo_selected_index[app_selected_index] = 0

\* C1: in EZView, after any sequence of repository and issue navigation,
\* clicks, closes and refresh cycles whose fetches give a snapshot or fail at
\* transport level, the cursor is in range, and no handler indexes past the
\* end of the issue list.
C1_CursorNeverOutOfRange ==
    (running = "EZView" /\ lastAct # "compose" /\ err \in {"none", "IndexError"})
        => (err = "none" /\ CursorInRange)

\* C2: after a refresh cycle that gives the selected repository a snapshot
\* of M issues, its issue index is below M, and 0 when M = 0, whichever
\* repository is selected.
C2_IndexValidAfterRefresh ==
    (/\ running = "EZView" /\ Refreshed /\ err = "none"
     /\ app_selected_index \in Repos
     /\ fetched[app_selected_index].ret = "Repo")
        => LET M == Len(fetched[app_selected_index].issues)
               issue_index == repo_selected_index[app_selected_index]
           IN IF M > 0 THEN 0 <= issue_index /\ issue_index < M ELSE issue_index = 0

\* C3: when the selected repository has no issue, next-issue and prev-issue
\* leave the issue index at 0 and raise nothing, in EZView and in EZTKView.
C3_NoIssueNoMove ==
    /\ (/\ running = "EZView"
        /\ lastAct \in {"action_next_issue", "action_prev_issue"}
        /\ app_selected_index \in Repos
        /\ views[app_selected_index] = << >>)
           => (err = "none" /\ repo_selected_index[app_selected_index] = 0)
    /\ (/\ running = "EZTKView"
        /\ lastAct \in {"action_up", "action_down"}
        /\ eztk.repo[eztk.selected_view].issues = << >>)
           => (err = "none" /\ eztk.selected_index[eztk.selected_view] = 0)

\* C4: the repository index stays in 0 .. repo_count - 1, next-repo steps it
\* to (index + 1) mod repo_count and prev-repo to (index - 1) mod repo_count,
\* in EZView and in EZTKView.
C4_RepoIndexModular ==
    /\ [](app_selected_index \in Repos /\ eztk.selected_repo \in Repos)
    /\ [][/\ lastAct' = "action_next_repo"
             => app_selected_index' = (app_selected_index + 1) % NbRepos
          /\ lastAct' = "action_prev_repo"
             => app_selected_index' = (app_selected_index - 1) % NbRepos
          /\ lastAct' = "action_right"
             => eztk'.selected_repo = (eztk.selected_repo + 1) % NbRepos
          /\ lastAct' = "action_left"
             => eztk'.selected_repo = (eztk.selected_repo - 1) % NbRepos]_vars

\* prev-repo has wrapped from the first repository to the last.
C4_Witness ==
    /\ running = "EZView" /\ lastAct = "action_prev_repo" /\ err = "none"
    /\ app_selected_index = NbRepos - 1
    /\ selected_repo[NbRepos - 1]

\* The issues of the IssueViews mounted in repository r, in order.
MountedIssues(r) == [i \in 1 .. Len(views[r]) |-> views[r][i].issue]

\* C5: in a refresh cycle of EZView where fetch_repo absorbs a transport
\* failure for repository A and returns a snapshot for repository B, nothing
\* is raised, no issue of A stays mounted, and B's mounted issues are B's
\* snapshot.
C5_FailedFetchEmptiesList ==
    (running = "EZView" /\ Refreshed)
        => \A A \in Repos, B \in Repos :
               (fetched[A].ret = "None" /\ fetched[B].ret = "Repo")
                   => /\ err = "none"
                      /\ views[A] = << >>
                      /\ MountedIssues(B) = fetched[B].issues

\* C6: when fetch_repo raises ApiError for a repository during a refresh
\* cycle of EZView, the cycle is not aborted: nothing leaves the handler,
\* every later repository is fetched, and select_first runs.
C6_ApiErrorKeepsCycle ==
    (running = "EZView" /\ Refreshed)
        => \A r \in Repos :
               fetched[r].exc = "ApiError"
                   => /\ err = "none"
                      /\ \A q \in Repos : q > r => fetched[q].ret # "not_fetched"
                      /\ selected_first

\* C7: after close_issue, called directly or from action_close, the issue's
\* state is `closed`, whatever the remote answered.
C7_CloseSetsClosed ==
    call.fn = "close_issue" => call.res.issue.state = "closed"

\* The remote accepted the request of the write operation fn.
Accepted(fn, remote) ==
    /\ remote.fail = "none"
    /\ remote.status = (IF fn = "push_new_issue" THEN 201 ELSE 200)

\* C8: close_issue mutates the issue, then sends exactly one update request
\* carrying the mutated issue, and returns True iff that update succeeded.
C8_CloseThenOneUpdate ==
    call.fn = "close_issue"
        => /\ call.res.raised = "none"
           /\ Len(call.res.sent) = 1
           /\ call.res.sent[1] = Request("PATCH", call.res.issue, call.remote)
           /\ call.res.ret = "True" <=> Accepted("close_issue", call.remote)

\* C9: push_new_issue, update_issue and close_issue raise nothing and return
\* a boolean, True iff the remote accepted the request.
C9_WritesReturnBoolean ==
    call.fn \in {"push_new_issue", "update_issue", "close_issue"}
        => /\ call.res.raised = "none"
           /\ call.res.ret \in {"True", "False"}
           /\ call.res.ret = "True" <=> Accepted(call.fn, call.remote)

\* C10: fetch_repo returns None and raises nothing for every transport
\* failure: refusal, DNS failure, timeout.
C10_FetchFailureIsNone ==
    (call.fn = "fetch_repo" /\ call.remote.fail \in TransportFailures)
        => (call.res.raised = "none" /\ call.res.ret = "None")

\* select_next_issue called n times on repository r.
RECURSIVE select_next_issue_times(_, _, _)
select_next_issue_times(s, r, n) ==
    IF n = 0 THEN s
    ELSE select_next_issue_times(RepoView_select_next_issue(s, r), r, n - 1)

\* C11: in every state of EZView, after a refresh cycle or not, next-issue
\* called issue_count times on the selected repository (issue_count >= 1)
\* raises nothing and brings the issue index back to its starting value.
C11_NextIssueCyclic ==
    (/\ running = "EZView" /\ lastAct # "compose" /\ err = "none"
     /\ app_selected_index \in Repos
     /\ ~repo[app_selected_index].none
     /\ Len(repo[app_selected_index].issues) >= 1)
        => LET r == app_selected_index
               after == select_next_issue_times(EZ, r, Len(repo[r].issues))
           IN /\ after.err = "none"
              /\ after.rsel[r] = repo_selected_index[r]

\* C12: after next-repo or prev-repo, the issue index of the newly selected
\* repository is 0 and, when it has issues, its first issue is marked
\* selected and no other issue is.
C12_RepoChangeSelectsFirstIssue ==
    (running = "EZView" /\ lastAct \in {"action_next_repo", "action_prev_repo"})
        => /\ err = "none"
           /\ app_selected_index \in Repos
           /\ repo_selected_index[app_selected_index] = 0
           /\ \A r \in Repos : \A i \in 1 .. Len(views[r]) :
                  views[r][i].selected_issue <=> (r = app_selected_index /\ i = 1)

\* next-repo has arrived on a repository with two issues, coming from a
\* repository that has issues too.
C12_Witness ==
    /\ running = "EZView" /\ lastAct = "action_next_repo" /\ err = "none"
    /\ app_selected_index = 1
    /\ Len(views[1]) = 2 /\ views[1][1].selected_issue
    /\ Len(views[0]) = 2

\* The integers select_issue_by_index is called with.
RepoIndexArgs == -(NbRepos + 1) .. NbRepos + 1

IssueIndexArgs == -(MaxPayload + 1) .. MaxPayload + 1

\* C13: in every state of EZView, select_issue_by_index called with any
\* integers raises nothing and leaves a cursor in range: a repository index
\* in 0 .. repo_count - 1 and an issue index below the issue count of that
\* repository, 0 when it has no issue.
C13_SelectByIndexClamps ==
    (running = "EZView" /\ lastAct # "compose" /\ err = "none")
        => \A repo_index \in RepoIndexArgs, issue_index \in IssueIndexArgs :
               LET after == EZView_select_issue_by_index(Begin(EZ), repo_index, issue_index)
               IN /\ after.err = "none"
                  /\ after.asel \in Repos
                  /\ IF after.views[after.asel] # << >>
                     THEN /\ 0 <= after.rsel[after.asel]
                          /\ after.rsel[after.asel] < Len(after.views[after.asel])
                     ELSE after.rsel[after.asel] = 0

\* The intents that target the selected issue.
IssueIntents ==
    {"action_toggle_issue", "action_github_issue", "action_octo", "action_close",
     "action_next_issue", "action_prev_issue"}

\* C14: in EZView, an issue-targeted intent handled while the selected
\* repository has no issue raises nothing, spawns no external command, calls
\* no write operation, mutates no issue and leaves the cursor unchanged.
C14_IssueIntentsNoOpWithoutIssue ==
    [][(/\ running = "EZView"
        /\ lastAct' \in IssueIntents
        /\ app_selected_index \in Repos
        /\ views[app_selected_index] = << >>
        /\ repo[app_selected_index].issues = << >>)
           => /\ err' = "none"
              /\ ext' = NoExt
              /\ call'.fn = "none"
              /\ repo' = repo /\ views' = views
              /\ app_selected_index' = app_selected_index
              /\ repo_selected_index' = repo_selected_index]_vars

\* The handlers of user input, in EZView and in EZTKView.
UserIntents ==
    {"action_next_repo", "action_prev_repo", "action_next_issue", "action_prev_issue",
     "action_toggle_issue", "action_github_issue", "action_github_repo",
     "action_ranger", "action_octo", "action_close", "on_click"}

OldUserIntents ==
    {"RepoView.on_click", "RepoView.on_enter", "action_up", "action_down",
     "action_left", "action_right", "action_f1", "action_f2", "action_f3", "action_f4"}

\* C15: a refresh cycle is a barrier. In EZView select_first runs only once
\* every repository has been replaced or has failed, and a user intent is
\* handled only in such a state; in EZTKView a user intent is never handled
\* while only some of the RepoViews have reloaded in the current period.
C15_RefreshIsBarrier ==
    /\ [](running = "EZView" /\ selected_first
             => \A r \in Repos : fetched[r].ret \in {"Repo", "None"})
    /\ [][(running = "EZView" /\ lastAct' \in UserIntents)
             => \A r \in Repos : fetched[r].ret \in {"Repo", "None"}]_vars
    /\ [][(running = "EZTKView" /\ lastAct' \in OldUserIntents)
             => eztk.reloaded = {}]_vars

\* C16: after a refresh cycle of EZView in which the fetch of repository R
\* succeeded, the issues R stores and the issues R displays are exactly the
\* fetched snapshot, in its order, and the views are new ones.
C16_SuccessReplacesSnapshot ==
    (running = "EZView" /\ Refreshed)
        => \A R \in Repos :
               fetched[R].ret = "Repo"
                   => /\ repo[R] = SomeRepo(fetched[R].issues)
                      /\ MountedIssues(R) = fetched[R].issues
                      /\ \A i \in 1 .. Len(views[R]) : ~views[R][i].is_text_open

\* A refresh has replaced a snapshot of two issues, the second one selected,
\* by a snapshot of one issue.
C16_Witness ==
    /\ running = "EZView" /\ lastAct = "refresh_content"
    /\ fetched[1].ret = "Repo"
    /\ Len(views[1]) = 1
    /\ repo_selected_index[1] = 1

\* The positions of the open issues in a payload.
OpenPositions(payload) == { i \in 1 .. Len(payload) : payload[i].state = "open" }

\* The position of the k-th open issue of a payload.
KthOpen(payload, k) ==
    CHOOSE i \in OpenPositions(payload) :
        Cardinality({ j \in OpenPositions(payload) : j < i }) = k - 1

\* C17: a successful fetch returns a snapshot made of exactly the issues of
\* the payload whose state is open, in the order of the payload, and indexing
\* the snapshot gives these issues.
C17_SnapshotIsOpenIssuesInOrder ==
    (call.fn = "fetch_repo" /\ call.remote.fail = "none" /\ call.remote.status = 200)
        => LET payload == call.remote.payload
               snapshot == call.res.repo
           IN /\ call.res.raised = "none" /\ call.res.ret = "Repo"
              /\ Len(snapshot) = Cardinality(OpenPositions(payload))
              /\ \A k \in 1 .. Len(snapshot) :
                     /\ InRange(snapshot, k - 1)
                     /\ At(snapshot, k - 1).state = "open"
                     /\ At(snapshot, k - 1).number = payload[KthOpen(payload, k)].number

\* A payload whose first issue is closed and whose second is open has been
\* fetched.
C17_Witness ==
    /\ call.fn = "fetch_repo" /\ call.res.ret = "Repo"
    /\ Len(call.remote.payload) = 2
    /\ call.remote.payload[1].state = "closed"
    /\ Len(call.res.repo) = 1
    /\ call.res.repo[1].number = 2

\* C18: encoding an Issue with to_json and decoding the result with
\* from_json raises nothing and gives back the same title, body, labels in
\* the same order and state.
C18_JsonRoundTrip ==
    call.fn = "round_trip"
        => /\ call.res.raised = "none"
           /\ call.res.issue.title = call.issue.title
           /\ call.res.issue.body = call.issue.body
           /\ call.res.issue.labels = call.issue.labels
           /\ call.res.issue.state = call.issue.state

\* r1, the first repository, has two open issues and r2, the second, has none.
TwoThenNone ==
    /\ running = "EZView" /\ err = "none"
    /\ ~repo[0].none /\ Len(repo[0].issues) = 2 /\ Len(views[0]) = 2
    /\ ~repo[1].none /\ repo[1].issues = << >> /\ views[1] = << >>

\* The cursor of EZView: the selected repository and its issue index.
Cursor == << app_selected_index, repo_selected_index[app_selected_index] >>

\* C19: with r1 of two open issues and r2 of none, the cursor is (0,0) after
\* the initial load; from (0,0) next-issue gives (0,1); from (0,1) next-repo
\* gives (1,0); from (1,0) next-issue leaves (1,0).
C19_TwoRepoScenario ==
    /\ []((TwoThenNone /\ lastAct = "on_mount") => Cursor = << 0, 0 >>)
    /\ [][(TwoThenNone /\ Cursor = << 0, 0 >> /\ lastAct' = "action_next_issue")
             => (err' = "none" /\ Cursor' = << 0, 1 >>)]_vars
    /\ [][(TwoThenNone /\ Cursor = << 0, 1 >> /\ lastAct' = "action_next_repo")
             => (err' = "none" /\ Cursor' = << 1, 0 >>)]_vars
    /\ [][(TwoThenNone /\ Cursor = << 1, 0 >> /\ lastAct' = "action_next_issue")
             => (err' = "none" /\ Cursor' = << 1, 0 >>)]_vars

\* The end of the scenario: next-issue has run on r2, selected after r1.
C19_Witness ==
    /\ TwoThenNone /\ lastAct = "action_next_issue"
    /\ Cursor = << 1, 0 >>
    /\ selected_repo[1] /\ ~selected_repo[0]

\* The external call that opens the web page of repository r.
OpenRepoInBrowser(r) == [cmd |-> "open_in_browser", repo |-> r, number |-> 0]

\* C20: the intent that opens the selected repository in the browser raises
\* nothing and makes the open-URL call for the selected repository, whatever
\* the last fetch of that repository gave, in EZView (action_github_repo) and
\* in EZTKView (action_f1).
C20_OpenRepoAlwaysOpens ==
    /\ (running = "EZView" /\ lastAct = "action_github_repo")
           => (err = "none" /\ ext = OpenRepoInBrowser(app_selected_index))
    /\ (running = "EZTKView" /\ lastAct = "action_f1")
           => (err = "none" /\ ext = OpenRepoInBrowser(eztk.selected_view))

\* C21: a refresh cycle of EZView, at mount, on the timer or by
\* action_refresh, leaves app.selected_index as it was, whatever the fetches
\* give.
C21_RefreshKeepsRepoIndex ==
    [][(running = "EZView" /\ lastAct' \in {"on_mount", "refresh_content"})
          => app_selected_index' = app_selected_index]_vars

\* A refresh cycle has run to its end, select_first included, while the
\* second repository was selected.
C21_Witness ==
    /\ running = "EZView" /\ lastAct = "refresh_content" /\ err = "none"
    /\ selected_first
    /\ app_selected_index = 1
    /\ selected_repo[0]

\* The intents that only open something outside the application.
OpenIntents == {"action_github_issue", "action_github_repo", "action_ranger", "action_octo"}

\* The views of EZView with the detail of the issue under the cursor toggled.
ToggledAtCursor ==
    LET r == app_selected_index
    IN [views EXCEPT ![r][Pos(views[r], repo_selected_index[r])].is_text_open = ~@]

\* C22: toggle-detail, open-issue, open-repo, open-locally and open-in-editor
\* leave the cursor, every repository's issues and every issue's state
\* unchanged; toggle-detail changes only the detail-open flag of the issue
\* under the cursor, and the others change no view at all.
C22_ViewIntentsKeepCursorAndIssues ==
    /\ [][(running = "EZView" /\ lastAct' \in OpenIntents \cup {"action_toggle_issue"})
             => /\ app_selected_index' = app_selected_index
                /\ repo_selected_index' = repo_selected_index
                /\ repo' = repo
                /\ selected_repo' = selected_repo]_vars
    /\ [][(running = "EZView" /\ lastAct' \in OpenIntents) => views' = views]_vars
    /\ [][(running = "EZView" /\ lastAct' = "action_toggle_issue")
             => IF err' = "none" /\ views[app_selected_index] # << >>
                THEN views' = ToggledAtCursor
                ELSE views' = views]_vars

\* toggle-detail has opened the detail of the second issue of a repository.
C22_Witness ==
    /\ running = "EZView" /\ lastAct = "action_toggle_issue" /\ err = "none"
    /\ repo_selected_index[app_selected_index] = 1
    /\ Len(views[app_selected_index]) = 2
    /\ views[app_selected_index][2].is_text_open
    /\ ~views[app_selected_index][1].is_text_open

\* C23: in every state of EZView after mount, exactly one RepoView carries
\* the class selected_repo, the one at app.selected_index.
C23_OneSelectedRepo ==
    (running = "EZView" /\ lastAct # "compose" /\ err = "none")
        => \A r \in Repos : selected_repo[r] <=> r = app_selected_index

\* C24: in every state of EZView after mount, an issue carries the class
\* selected_issue exactly when it is the issue at the issue index of the
\* selected repository; no issue of another repository carries it.
C24_SelectedIssueFollowsCursor ==
    (running = "EZView" /\ lastAct # "compose" /\ err = "none")
        => \A r \in Repos : \A i \in 1 .. Len(views[r]) :
               views[r][i].selected_issue
                   <=> (r = app_selected_index /\ i = repo_selected_index[r] + 1)

\* C25: in EZTKView, under every interleaving of reloads, renders and key or
\* click actions, no access repo[selected_index] or content[selected_index]
\* is out of range.
C25_OldIndexAlwaysInRange ==
    running = "EZTKView" => err # "IndexError"

\* C26: in every state of EZView, every RepoView other than the one at
\* app.selected_index has selected_index 0.
C26_UnselectedReposAtZero ==
    running = "EZView"
        => \A r \in Repos : r # app_selected_index => repo_selected_index[r] = 0

\* A repository switch has left a repository whose second issue had been
\* under the cursor (its detail is still open), and its index is back to 0.
C26_Witness ==
    /\ running = "EZView" /\ lastAct \in {"action_next_repo", "action_prev_repo"}
    /\ err = "none"
    /\ app_selected_index = 0
    /\ Len(views[1]) = 2
    /\ views[1][2].is_text_open
    /\ repo_selected_index[1] = 0

\* The state of EZView s shows the same cursor and the same views as now.
SameCursorAndFlags(s) ==
    /\ s.err = "none"
    /\ s.asel = app_selected_index
    /\ s.rsel = repo_selected_index
    /\ s.views = views

\* C27: in every state of EZView where the selected repository shows at
\* least one issue and its issue index is in range, next-issue then
\* prev-issue, and prev-issue then next-issue, give back the issue index and
\* the selected-issue flags.
C27_NextPrevInverse ==
    (/\ running = "EZView" /\ lastAct # "compose" /\ err = "none"
     /\ views[app_selected_index] # << >>
     /\ 0 <= repo_selected_index[app_selected_index]
     /\ repo_selected_index[app_selected_index] < Len(views[app_selected_index]))
        => /\ SameCursorAndFlags(EZView_action_prev_issue(EZView_action_next_issue(EZ)))
           /\ SameCursorAndFlags(EZView_action_next_issue(EZView_action_prev_issue(EZ)))

\* The remote behaviours that give every repository the outcome its last
\* fetch had.
SameOutcomes ==
    [r \in Repos |->
        CHOOSE remote \in UiGetOutcomes :
            LET res == fetch_repo(remote)
            IN /\ res.raised = "none"
               /\ \/ fetched[r].ret = "None" /\ res.ret = "None"
                  \/ /\ fetched[r].ret = "Repo" /\ res.ret = "Repo"
                     /\ res.repo = fetched[r].issues]

IssuesOf(vs) == [r \in Repos |-> [i \in 1 .. Len(vs[r]) |-> vs[r][i].issue]]

SelectedFlagsOf(vs) ==
    [r \in Repos |-> [i \in 1 .. Len(vs[r]) |-> vs[r][i].selected_issue]]

\* C28: in every state a refresh cycle of EZView has just produced, a second
\* cycle with the same outcome for every repository gives the same cursor,
\* the same issue lists, the same selected-repo flags and the same
\* selected-issue flags.
C28_RefreshIdempotent ==
    (running = "EZView" /\ Refreshed /\ err = "none")
        => LET s == EZView_refresh_content(BeginCycle(EZ), SameOutcomes)
           IN /\ s.err = "none"
              /\ s.asel = app_selected_index
              /\ s.rsel = repo_selected_index
              /\ s.repo = repo
              /\ IssuesOf(s.views) = IssuesOf(views)
              /\ s.cls = selected_repo
              /\ SelectedFlagsOf(s.views) = SelectedFlagsOf(views)

\* A cycle that ran with the second repository selected, gave it two issues
\* and failed to fetch the first one, whose earlier views stay.
C28_Witness ==
    /\ running = "EZView" /\ lastAct = "refresh_content" /\ err = "none"
    /\ app_selected_index = 1
    /\ fetched[1].ret = "Repo" /\ Len(views[1]) = 2
    /\ fetched[0].ret = "None" /\ views[0] # << >>
    /\ views[0][1].selected_issue

OpenFlagsOf(vs) ==
    [r \in Repos |-> [i \in 1 .. Len(vs[r]) |-> vs[r][i].is_text_open]]

====
